---- MODULE Spec2Model ----
(***************************************************************************)
(* Attribute access over immutable game state (opticat).                   *)
(*                                                                         *)
(* The model covers the attribute layer (AbstractAttribute: get, set,      *)
(* setRaw, modify, modifyRaw over an Optional built from at/key), the      *)
(* actor holder's id lookup, and the BaseGame get/update pipeline          *)
(* (Do/bind/update/map) with its single mutable cell `_world`; bound       *)
(* attributes (AbstractBoundAttribute over Range and clamp), the RangeT    *)
(* codec, and the actor holder's find.                                     *)
(*                                                                         *)
(* JavaScript values are modelled as records [t, n, s] (type tag, numeric  *)
(* payload, string payload) so that values of different runtime types can  *)
(* be compared.  Template-literal strings are modelled as tuples of their  *)
(* parts, interpolated values included.                                    *)
(***************************************************************************)
EXTENDS Integers, Sequences, FiniteSets, TLC

(***************************************************************************)
(* Bounds of the model.                                                    *)
(***************************************************************************)
MaxSteps == 3
MaxAge == 43

(***************************************************************************)
(* JavaScript values.                                                      *)
(***************************************************************************)
Str(x) == [t |-> "string", n |-> 0, s |-> x]
Num(x) == [t |-> "number", n |-> x, s |-> ""]
ActorRef(id) == [t |-> "actor", n |-> 0, s |-> id]

Digits == <<"0", "1", "2", "3", "4", "5", "6", "7", "8", "9">>

RECURSIVE NatToString(_)
NatToString(n) ==
    IF n < 10 THEN Digits[n + 1]
    ELSE NatToString(n \div 10) \o Digits[(n % 10) + 1]

\* `${value}` in a template literal.
Stringify(v) ==
    IF v.t = "number"
    THEN (IF v.n < 0 THEN "-" \o NatToString(-v.n) ELSE NatToString(v.n))
    ELSE v.s

(***************************************************************************)
(* fp-ts Either.                                                           *)
(***************************************************************************)
Right(x) == [tag |-> "Right", right |-> x]
Left(e) == [tag |-> "Left", left |-> e]
isRight(ma) == ma.tag = "Right"
isLeft(ma) == ma.tag = "Left"

(***************************************************************************)
(* The universe of actors, contexts and values.                            *)
(***************************************************************************)
ActorIds == {"player", "npc"}

LongName == "Xanthias the Magnificent"

ActorData(id, name, age) == [id |-> id, name |-> Str(name), age |-> Num(age)]

World(ids) == [actors |-> [k \in ids |-> ActorData(k, "Anna", 41)]]

InitialWorlds == {World(ids) : ids \in SUBSET ActorIds}

(***************************************************************************)
(* Optional<S, A>: a path of `at` (struct field, a lens) and `key` (record *)
(* key, fails when the key is missing) elements.                           *)
(***************************************************************************)
At(f) == [k |-> "at", f |-> f]
Key(f) == [k |-> "key", f |-> f]

MissingKey(key) == <<"Missing key ", "\"" \o key \o "\"">>

RECURSIVE getOptic(_, _)
getOptic(optic, s) ==
    IF optic = <<>> THEN Right(s)
    ELSE LET h == Head(optic)
         IN  IF h.k = "key" /\ h.f \notin DOMAIN s
             THEN Left([error |-> MissingKey(h.f)])
             ELSE getOptic(Tail(optic), s[h.f])

\* Mutant of setOptic: writing under a missing key creates a record there.
RECURSIVE setOpticUpsert(_, _, _)
setOpticUpsert(optic, v, s) ==
    IF optic = <<>> THEN Right(v)
    ELSE LET h == Head(optic)
             at == IF h.k = "key" /\ h.f \notin DOMAIN s
                   THEN [k \in DOMAIN s \cup {h.f} |->
                            IF k = h.f THEN ActorData("created", "Anna", 41) ELSE s[k]]
                   ELSE s
             inner == setOpticUpsert(Tail(optic), v, at[h.f])
         IN  IF isLeft(inner) THEN inner
             ELSE Right([at EXCEPT ![h.f] = inner.right])

\* Mutant of setOptic: writing under a key drops the other keys of the record.
RECURSIVE setOpticClobber(_, _, _)
setOpticClobber(optic, v, s) ==
    IF optic = <<>> THEN Right(v)
    ELSE LET h == Head(optic)
         IN  IF h.k = "key" /\ h.f \notin DOMAIN s
             THEN Left([error |-> MissingKey(h.f)])
             ELSE LET inner == setOpticClobber(Tail(optic), v, s[h.f])
                  IN  IF isLeft(inner) THEN inner
                      ELSE IF h.k = "key" THEN Right([k \in {h.f} |-> inner.right])
                      ELSE Right([s EXCEPT ![h.f] = inner.right])

RECURSIVE setOptic(_, _, _)
setOptic(optic, v, s) ==
    IF optic = <<>> THEN Right(v)
    ELSE LET h == Head(optic)
         IN  IF h.k = "key" /\ h.f \notin DOMAIN s
             THEN Left([error |-> MissingKey(h.f)])
             ELSE LET inner == setOptic(Tail(optic), v, s[h.f])
                  IN  IF isLeft(inner) THEN inner
                      ELSE Right([s EXCEPT ![h.f] = inner.right])

\* BaseActor: Optic.id<TContext>().at("actors").key(id)
ActorOptic(id) == <<At("actors"), Key(id)>>

\* AbstractAttribute: optic.compose(Optic.id<TData>().at(name))
AttributeOptic(attr) == ActorOptic(attr.key) \o <<At(attr.name)>>

(***************************************************************************)
(* Decoders (io-ts codecs).  decode returns Right(value) or Left(reports), *)
(* the reports being what PathReporter.report lists for the failure.       *)
(***************************************************************************)
ActorNameMin == 1
ActorNameMax == 20

\* MinLengthString(len): a string with len <= s.length
MinLengthString(len, v) == v.t = "string" /\ len <= Len(v.s)

\* MaxLengthString(len): a string with s.length <= len
MaxLengthString(len, v) == v.t = "string" /\ Len(v.s) <= len

MinLengthMessage(len) == <<"Must be at least ", NatToString(len), " characters long.">>
MaxLengthMessage(len) == <<"Must be equal to or shorter than ", NatToString(len), " characters.">>

\* ActorNameT = T.intersection([MinLengthString(1), MaxLengthString(20)])
ActorNameT(v) ==
    LET errs == (IF MinLengthString(ActorNameMin, v) THEN <<>>
                 ELSE <<MinLengthMessage(ActorNameMin)>>)
                \o (IF MaxLengthString(ActorNameMax, v) THEN <<>>
                    ELSE <<MaxLengthMessage(ActorNameMax)>>)
    IN  IF errs = <<>> THEN Right(v) ELSE Left(errs)

\* PositiveInt (io-ts-numbers): an integer greater than zero
PositiveInt(v) ==
    IF v.t = "number" /\ v.n > 0 THEN Right(v)
    ELSE Left(<< <<"Invalid value ", Stringify(v), " supplied to : ", "PositiveInt">> >>)

\* Health = withMessage(NonNegativeInt, ...): an integer not below zero
Health(v) ==
    IF v.t = "number" /\ v.n >= 0 THEN Right(v)
    ELSE Left(<< <<"Health should be a non-negative integer: ", Stringify(v), ".">> >>)

\* The decoder of an attribute: `name` is decoded by ActorNameT, `health` by
\* Health, `age` by PositiveInt.
decode(attr, v) ==
    IF attr.name = "name" THEN ActorNameT(v)
    ELSE IF attr.name = "health" THEN Health(v)
    ELSE PositiveInt(v)

(***************************************************************************)
(* AbstractAttribute.  An attribute is [name, key, updatable]: the field,  *)
(* the actor whose record it focuses on, and the constructor's `updatable` *)
(* option.  Errors are records [type, message, details].                   *)
(***************************************************************************)
Attribute(name, key, updatable) == [name |-> name, key |-> key, updatable |-> updatable]

\* An attribute of a subclass that overrides isUpdatable carries the name of
\* its policy beside the constructor's option.
PolicyAttribute(name, key, policy) ==
    [name |-> name, key |-> key, updatable |-> TRUE, policy |-> policy]

AdultAge == 18

\* The overrides: "minor" lets the attribute be written while its actor is
\* under age, "adult" once the actor is of age.
Policy(attr, context) ==
    CASE attr.policy = "minor" -> context.actors[attr.key].age.n < AdultAge
      [] attr.policy = "adult" -> context.actors[attr.key].age.n >= AdultAge

isUpdatable(attr, context) ==
    IF "policy" \in DOMAIN attr THEN Policy(attr, context) ELSE attr.updatable

\* Mutant of checkUpdatable: the policy is not consulted.
checkUpdatableAlways(attr, context) == Right(context)

checkUpdatable(attr, context) ==
    IF isUpdatable(attr, context) THEN Right(context)
    ELSE Left([type |-> "ReadOnlyAttribute",
               message |-> <<"Cannot modify a read-only attribute \"", attr.name, "\".">>])

toAttributeError(attr, e) ==
    [type |-> "AttributeAccess",
     message |-> <<"Failed to access attribute \"", attr.name, "\": ">> \o e.error \o <<".">>,
     details |-> <<e.error>>]

get(attr, context) ==
    LET r == getOptic(AttributeOptic(attr), context)
    IN  IF isLeft(r) THEN Left(toAttributeError(attr, r.left)) ELSE r

validate(attr, value) ==
    LET r == decode(attr, value)
    IN  IF isLeft(r)
        THEN Left([type |-> "InvalidAttribute",
                   message |-> <<"Invalid value \"", Stringify(value),
                                 "\" specified for attribute \"", attr.name, "\".">>,
                   details |-> r.left])
        ELSE r

\* Mutant of set: the policy is checked before the structural write.
setPolicyFirst(attr, value, context) ==
    LET u == checkUpdatable(attr, context)
        r == setOptic(AttributeOptic(attr), value, context)
    IN  IF isLeft(u) THEN u
        ELSE IF isLeft(r) THEN Left(toAttributeError(attr, r.left))
        ELSE r

\* Mutant of set: the context that was given is returned in place of the
\* written one.
setKeepsContext(attr, value, context) ==
    LET r == setOptic(AttributeOptic(attr), value, context)
    IN  IF isLeft(r) THEN Left(toAttributeError(attr, r.left))
        ELSE checkUpdatable(attr, context)

\* Mutant of set: the policy is asked about the context that was given.
setPolicyOnGiven(attr, value, context) ==
    LET r == setOptic(AttributeOptic(attr), value, context)
    IN  IF isLeft(r) THEN Left(toAttributeError(attr, r.left))
        ELSE IF isLeft(checkUpdatable(attr, context)) THEN checkUpdatable(attr, context)
        ELSE r

set(attr, value, context) ==
    LET r == setOptic(AttributeOptic(attr), value, context)
    IN  IF isLeft(r) THEN Left(toAttributeError(attr, r.left))
        ELSE checkUpdatable(attr, r.right)

\* Mutant of setRaw: the path is read before the value is validated.
setRawAccessFirst(attr, value, context) ==
    LET g == get(attr, context)
        v == IF isLeft(g) THEN g ELSE validate(attr, value)
        s == IF isLeft(v) THEN v ELSE set(attr, v.right, context)
    IN  IF isLeft(s) THEN s ELSE checkUpdatable(attr, s.right)

setRaw(attr, value, context) ==
    LET v == validate(attr, value)
        s == IF isLeft(v) THEN v ELSE set(attr, v.right, context)
    IN  IF isLeft(s) THEN s ELSE checkUpdatable(attr, s.right)

(***************************************************************************)
(* Modifier functions handed to modify / modifyRaw.                        *)
(***************************************************************************)
Apply(f, v) ==
    CASE f = "rename" -> Str(IF v.s = "Anna" THEN "Xanthias" ELSE "Anna")
      [] f = "older"  -> Num(v.n + 1)
      [] f = "lengthen" -> Str(LongName)
      [] f = "negate" -> Num(0 - v.n)
      [] f = "number" -> Num(1234)

\* modify and modifyRaw, with the number of times the modifier was invoked.
modify(attr, f, context) ==
    LET g == get(attr, context)
        m == IF isLeft(g) THEN g ELSE Right(Apply(f, g.right))
    IN  [result |-> IF isLeft(m) THEN m ELSE set(attr, m.right, context),
         calls |-> IF isLeft(g) THEN 0 ELSE 1]

\* Mutant of modifyRaw: the policy is checked before the modifier's value is validated.
modifyRawPolicyFirst(attr, f, context) ==
    LET g == get(attr, context)
        u == IF isLeft(g) THEN g ELSE checkUpdatable(attr, context)
        m == IF isLeft(u) THEN u ELSE Right(Apply(f, g.right))
        v == IF isLeft(m) THEN m ELSE validate(attr, m.right)
    IN  [result |-> IF isLeft(v) THEN v ELSE set(attr, v.right, context),
         calls |-> IF isLeft(g) THEN 0 ELSE 1]

modifyRaw(attr, f, context) ==
    LET g == get(attr, context)
        m == IF isLeft(g) THEN g ELSE Right(Apply(f, g.right))
        v == IF isLeft(m) THEN m ELSE validate(attr, m.right)
    IN  [result |-> IF isLeft(v) THEN v ELSE set(attr, v.right, context),
         calls |-> IF isLeft(g) THEN 0 ELSE 1]

(***************************************************************************)
(* Inputs of the attribute operations.                                     *)
(***************************************************************************)
Attrs == {Attribute(n, k, u) : n \in {"name", "age"}, k \in ActorIds, u \in BOOLEAN}

\* Values of the attribute's type (what the typed `set` accepts).
TypedValues(attr) ==
    IF attr.name = "name" THEN {Str("Anna"), Str("Xanthias")} ELSE {Num(41), Num(42)}

\* Untyped values handed to setRaw.
RawValues == {Str("Xanthias"), Str(""), Str(LongName), Num(42), Num(0 - 30)}

\* Modifiers of the attribute's type (modify) and untyped ones (modifyRaw).
TypedModifiers(attr) == IF attr.name = "name" THEN {"rename"} ELSE {"older"}
RawModifiers(attr) ==
    IF attr.name = "name" THEN {"rename", "lengthen", "number"} ELSE {"older", "negate"}

\* Contexts kept within the bounds of the model.
Bounded(c) == \A k \in DOMAIN c.actors : c.actors[k].age.n <= MaxAge

NoValue == Str("")

VARIABLES
    ctx,        \* the context the caller threads through attribute operations
    call,       \* the last attribute operation: its inputs, result and modifier calls
    probe,      \* the arguments of a function applied on its own, and what it returned
    look        \* the last use of the actor holder: its inputs and what it returned

Call(op, attr, value, f, input, result, calls) ==
    [op |-> op, attr |-> attr, value |-> value, f |-> f,
     input |-> input, result |-> result, calls |-> calls]

NoCall == Call("none", Attribute("name", "player", TRUE), NoValue, "", World({}),
               Right(World({})), 0)

Probe(op, range, v, once, twice, is, validated) ==
    [op |-> op, range |-> range, v |-> v, once |-> once, twice |-> twice,
     is |-> is, validated |-> validated]

\* A range and a value to which nothing has been applied yet.
Fresh(range, v) == Probe("none", range, v, v, v, TRUE, Right(range))

NoProbe == Fresh([min |-> <<>>, max |-> <<>>], Num(0))

Look(op, id, pred, value, input, found, got, list, read, wrote) ==
    [op |-> op, id |-> id, pred |-> pred, value |-> value, input |-> input,
     found |-> found, got |-> got, list |-> list, read |-> read, wrote |-> wrote]

NoLook == Look("none", "", "", NoValue, World({}), <<>>, Right(ActorRef("")), <<>>,
               Right(NoValue), Right(World({})))

\* The caller keeps the context of a successful write (E.chain(attr.set(v))).
Threaded(result) == IF isRight(result) THEN result.right ELSE ctx

AttrStart ==
    /\ ctx \in InitialWorlds
    /\ call = NoCall

DoGet ==
    \E attr \in Attrs :
        /\ call' = Call("get", attr, NoValue, "", ctx, get(attr, ctx), 0)
        /\ ctx' = ctx

DoSet ==
    \E attr \in Attrs : \E v \in TypedValues(attr) :
        LET r == set(attr, v, ctx)
        IN  /\ Bounded(Threaded(r))
            /\ call' = Call("set", attr, v, "", ctx, r, 0)
            /\ ctx' = Threaded(r)

DoSetRaw ==
    \E attr \in Attrs : \E v \in RawValues :
        LET r == setRaw(attr, v, ctx)
        IN  /\ Bounded(Threaded(r))
            /\ call' = Call("setRaw", attr, v, "", ctx, r, 0)
            /\ ctx' = Threaded(r)

DoModify ==
    \E attr \in Attrs : \E f \in TypedModifiers(attr) :
        LET r == modify(attr, f, ctx)
        IN  /\ Bounded(Threaded(r.result))
            /\ call' = Call("modify", attr, NoValue, f, ctx, r.result, r.calls)
            /\ ctx' = Threaded(r.result)

DoModifyRaw ==
    \E attr \in Attrs : \E f \in RawModifiers(attr) :
        LET r == modifyRaw(attr, f, ctx)
        IN  /\ Bounded(Threaded(r.result))
            /\ call' = Call("modifyRaw", attr, NoValue, f, ctx, r.result, r.calls)
            /\ ctx' = Threaded(r.result)

AttrStep == DoGet \/ DoSet \/ DoSetRaw \/ DoModify \/ DoModifyRaw

(***************************************************************************)
(* AbstractActorHolder with the tests' findByData (wraps data.id in a      *)
(* BaseActor).                                                             *)
(***************************************************************************)
Some(x) == <<x>>
None == <<>>

findByData(data) == Some(ActorRef(data.id))

\* Mutant of findById: the id is wrapped without looking it up.
findByIdUnchecked(id, context) == Some(ActorRef(id))

findById(id, context) ==
    LET r == getOptic(ActorOptic(id), context)
    IN  IF isLeft(r) THEN None ELSE findByData(r.right)

holderGet(id, context) ==
    LET o == findById(id, context)
    IN  IF o = None
        THEN Left([type |-> "UnknownActor",
                   message |-> <<"Actor with the given id does not exist: \"", id, "\".">>])
        ELSE Right(o[1])

(***************************************************************************)
(* The pipeline combinators of BaseGame.  A step function is a record      *)
(* [fn, attr, value, arg]; Invoke is f(a)(context).  Each combinator       *)
(* returns the new Either and the number of times it invoked its function. *)
(***************************************************************************)
Fn(fn, attr, value, arg) == [fn |-> fn, attr |-> attr, value |-> value, arg |-> arg]

Invoke(f, a, context) ==
    CASE f.fn = "get"       -> get(f.attr, context)
      [] f.fn = "resolve"   -> holderGet(f.value.s, context)
      [] f.fn = "set"       -> set(f.attr, f.value, context)
      [] f.fn = "setFrom"   -> set(f.attr, a[f.arg], context)
      [] f.fn = "setRaw"    -> setRaw(f.attr, f.value, context)
      [] f.fn = "modify"    -> modify(f.attr, f.arg, context).result
      [] f.fn = "modifyRaw" -> modifyRaw(f.attr, f.arg, context).result

\* Object.assign({}, a, {[name]: v})
Assign(a, name, v) == [k \in DOMAIN a \cup {name} |-> IF k = name THEN v ELSE a[k]]

\* Do: E.of({context: this.world})
Do(w) == Right([context |-> w])

bind(name, f, m) ==
    IF isLeft(m) THEN [ma |-> m, calls |-> 0]
    ELSE LET a == m.right
             r == Invoke(f, a, a.context)
         IN  [ma |-> IF isLeft(r) THEN r ELSE Right(Assign(a, name, r.right)),
              calls |-> 1]

\* Mutant of update: the new context is dropped instead of replacing the old one.
updateKeepsContext(f, m) ==
    IF isLeft(m) THEN [ma |-> m, calls |-> 0]
    ELSE LET a == m.right
             r == Invoke(f, a, a.context)
         IN  [ma |-> IF isLeft(r) THEN r ELSE Right(a), calls |-> 1]

\* Mutant of update: the step function is invoked even after an error.
updateAfterError(f, m) ==
    IF isLeft(m) THEN [ma |-> m, calls |-> 1]
    ELSE LET a == m.right
             r == Invoke(f, a, a.context)
         IN  [ma |-> IF isLeft(r) THEN r ELSE Right([a EXCEPT !.context = r.right]),
              calls |-> 1]

update(f, m) ==
    IF isLeft(m) THEN [ma |-> m, calls |-> 0]
    ELSE LET a == m.right
             r == Invoke(f, a, a.context)
         IN  [ma |-> IF isLeft(r) THEN r ELSE Right([a EXCEPT !.context = r.right]),
              calls |-> 1]

\* The functions given to map: both return a record that still carries `context`.
Transform(f, a) ==
    CASE f.fn = "mark" -> Assign(a, "mark", Str("done"))
      [] f.fn = "only" -> [context |-> a.context]

map(f, m) ==
    IF isLeft(m) THEN [ma |-> m, calls |-> 0]
    ELSE [ma |-> Right(Transform(f, m.right)), calls |-> 1]

\* Mutant of commit: an error resets the stored snapshot to an empty world.
commitResetOnError(res, w) ==
    IF isRight(res) THEN [world |-> res.right.context, writes |-> 1]
    ELSE [world |-> [actors |-> [k \in {} |-> k]], writes |-> 1]

\* Mutant of commit: the stored snapshot is never replaced.
commitNever(res, w) == [world |-> w, writes |-> 0]

\* update(): if (E.isRight(result)) this._world = result.right.context
commit(res, w) ==
    IF isRight(res) THEN [world |-> res.right.context, writes |-> 1]
    ELSE [world |-> w, writes |-> 0]

(***************************************************************************)
(* BaseGame: the stored snapshot `_world` and one get/update call at a     *)
(* time.  A call evaluates the caller's pipeline function once: Begin      *)
(* enters it with Do, each Step applies one combinator of the pipe, End    *)
(* is the rest of get/update after the function returned.                  *)
(***************************************************************************)
GameAttrs ==
    {Attribute("name", "player", TRUE), Attribute("name", "player", FALSE),
     Attribute("age", "player", TRUE), Attribute("name", "npc", TRUE)}

\* The name bound by the bind at each position of the pipe (all distinct).
Names == <<"a", "b", "c", "d", "e">>

BindFns ==
    {Fn("get", attr, NoValue, "") : attr \in GameAttrs}
    \cup {Fn("resolve", Attribute("name", id, TRUE), Str(id), "") : id \in ActorIds}

UpdateFns ==
    {Fn("set", attr, IF attr.name = "name" THEN Str("Xanthias") ELSE Num(42), "") :
        attr \in GameAttrs}
    \cup {Fn("setFrom", attr, NoValue, n) :
            attr \in {Attribute("name", "player", TRUE)}, n \in {"a"}}
    \cup {Fn("setRaw", Attribute("age", "player", TRUE), v, "") : v \in {Num(0 - 30)}}
    \cup {Fn("modify", attr, NoValue, f) : attr \in GameAttrs, f \in {"rename", "older"}}
    \cup {Fn("modifyRaw", Attribute("age", "player", TRUE), NoValue, "negate")}

MapFns == {Fn(f, Attribute("name", "player", TRUE), NoValue, "") : f \in {"mark", "only"}}

\* What the type checker demands of a step function before it can be written.
WellTyped(f, m) ==
    /\ f.fn = "modify" => f.arg \in TypedModifiers(f.attr)
    /\ f.fn = "setFrom" =>
          /\ isRight(m)
          /\ f.arg \in DOMAIN m.right
          /\ m.right[f.arg].t = "string"
          /\ isRight(decode(f.attr, m.right[f.arg]))

VARIABLES
    world,        \* BaseGame._world
    pc,           \* "idle", or "running" while a pipeline function is being evaluated
    mode,         \* the call in progress or last finished: "none", "get", "update"
    ma,           \* the Either the pipe has produced so far
    idx,          \* the number of combinators applied so far
    pre,          \* the snapshot stored when the call began
    step,         \* the last combinator applied: function, Either before and after, calls
    failure,      \* the first error a step of this pipeline returned, if any
    invocations,  \* how many times the call invoked the pipeline function
    writes,       \* how many times the call assigned _world
    result        \* what the last finished call returned

gameVars == <<world, pc, mode, ma, idx, pre, step, failure, invocations, writes, result>>

vars == <<ctx, call, probe, look, world, pc, mode, ma, idx, pre, step, failure, invocations, writes, result>>

Step(kind, f, before, after, calls) ==
    [kind |-> kind, f |-> f, before |-> before, after |-> after, calls |-> calls]

NoStep == Step("none", Fn("none", Attribute("name", "player", TRUE), NoValue, ""),
               Do(World({})), Do(World({})), 0)

GameIdle(w) ==
    /\ world = w
    /\ pc = "idle"
    /\ mode = "none"
    /\ ma = Do(w)
    /\ idx = 0
    /\ pre = w
    /\ step = NoStep
    /\ failure = <<>>
    /\ invocations = 0
    /\ writes = 0
    /\ result = Do(w)

Init ==
    /\ \E w \in InitialWorlds : GameIdle(w)
    /\ ctx = World({})
    /\ call = NoCall
    /\ probe = NoProbe
    /\ look = NoLook

Begin(m) ==
    /\ pc = "idle"
    /\ pc' = "running"
    /\ mode' = m
    /\ pre' = world
    /\ ma' = Do(world)
    /\ idx' = 0
    /\ step' = NoStep
    /\ failure' = <<>>
    /\ invocations' = 1
    /\ writes' = 0
    /\ result' = Do(world)
    /\ UNCHANGED <<world, ctx, call, probe, look>>

GetBegin == Begin("get")

UpdateBegin == Begin("update")

\* Mutant of Advance: every successful update step writes the stored snapshot.
AdvanceEager(kind, f, r) ==
    /\ isRight(r.ma) => Bounded(r.ma.right.context)
    /\ ma' = r.ma
    /\ idx' = idx + 1
    /\ step' = Step(kind, f, ma, r.ma, r.calls)
    /\ failure' = IF failure = <<>> /\ isLeft(r.ma) THEN <<r.ma>> ELSE failure
    /\ world' = IF kind = "update" /\ isRight(r.ma) THEN r.ma.right.context ELSE world
    /\ writes' = IF kind = "update" /\ isRight(r.ma) THEN writes + 1 ELSE writes
    /\ UNCHANGED <<pc, mode, pre, invocations, result, ctx, call, probe, look>>

Advance(kind, f, r) ==
    /\ isRight(r.ma) => Bounded(r.ma.right.context)
    /\ ma' = r.ma
    /\ idx' = idx + 1
    /\ step' = Step(kind, f, ma, r.ma, r.calls)
    /\ failure' = IF failure = <<>> /\ isLeft(r.ma) THEN <<r.ma>> ELSE failure
    /\ UNCHANGED <<world, pc, mode, pre, invocations, writes, result, ctx, call, probe, look>>

BindStep ==
    /\ pc = "running"
    /\ idx < MaxSteps
    /\ \E f \in BindFns : Advance("bind", f, bind(Names[idx + 1], f, ma))

UpdateStep ==
    /\ pc = "running"
    /\ mode = "update"
    /\ idx < MaxSteps
    /\ \E f \in UpdateFns : WellTyped(f, ma) /\ Advance("update", f, update(f, ma))

MapStep ==
    /\ pc = "running"
    /\ idx < MaxSteps
    /\ \E f \in MapFns : Advance("map", f, map(f, ma))

GetEnd ==
    /\ pc = "running"
    /\ mode = "get"
    /\ pc' = "idle"
    /\ result' = ma
    /\ UNCHANGED <<world, mode, ma, idx, pre, step, failure, invocations, writes, ctx, call, probe, look>>

UpdateEnd ==
    /\ pc = "running"
    /\ mode = "update"
    /\ pc' = "idle"
    /\ world' = commit(ma, world).world
    /\ writes' = writes + commit(ma, world).writes
    /\ result' = ma
    /\ UNCHANGED <<mode, ma, idx, pre, step, failure, invocations, ctx, call, probe, look>>

Next ==
    \/ GetBegin \/ UpdateBegin
    \/ BindStep \/ UpdateStep \/ MapStep
    \/ GetEnd \/ UpdateEnd

Spec == Init /\ [][Next]_vars

(***************************************************************************)
(* Re-entrant calls.  A step function of an update pipeline may itself     *)
(* call update on the same game before it returns.  The nested call runs   *)
(* to its end inside the step: it builds its own Do from `_world`, applies *)
(* its pipeline (one update step g) and commits; the outer step then       *)
(* returns the context it was given.  For such a step, `step.after` is     *)
(* what the nested call returned.                                          *)
(***************************************************************************)
\* Mutant of Reenter: the outer pipeline continues from the snapshot the
\* nested call stored.
ReenterRefreshing(g) ==
    LET nested == update(g, Do(world)).ma
        stored == commit(nested, world)
    IN  /\ isRight(ma)
        /\ Bounded(stored.world)
        /\ world' = stored.world
        /\ writes' = writes + stored.writes
        /\ ma' = Right([ma.right EXCEPT !.context = stored.world])
        /\ idx' = idx + 1
        /\ step' = Step("nested", g, ma, nested, 1)
        /\ UNCHANGED <<pc, mode, pre, failure, invocations, result, ctx, call, probe, look>>

Reenter(g) ==
    LET nested == update(g, Do(world)).ma
        stored == commit(nested, world)
    IN  /\ isRight(ma)
        /\ Bounded(stored.world)
        /\ world' = stored.world
        /\ writes' = writes + stored.writes
        /\ ma' = ma
        /\ idx' = idx + 1
        /\ step' = Step("nested", g, ma, nested, 1)
        /\ UNCHANGED <<pc, mode, pre, failure, invocations, result, ctx, call, probe, look>>

NestedUpdate ==
    /\ pc = "running"
    /\ mode = "update"
    /\ idx < MaxSteps
    /\ \E g \in UpdateFns : WellTyped(g, Do(world)) /\ Reenter(g)

ReentrantNext ==
    \/ GetBegin \/ UpdateBegin
    \/ BindStep \/ UpdateStep \/ MapStep \/ NestedUpdate
    \/ GetEnd \/ UpdateEnd

ReentrantSpec == Init /\ [][ReentrantNext]_vars

(***************************************************************************)
(* The attribute operations on their own: a caller threading one context   *)
(* through get/set/setRaw/modify/modifyRaw, with no game around it.        *)
(***************************************************************************)
AttrInit == AttrStart /\ GameIdle(World({})) /\ probe = NoProbe /\ look = NoLook

AttrNext == AttrStep /\ UNCHANGED <<gameVars, probe, look>>

AttrSpec == AttrInit /\ [][AttrNext]_vars

(***************************************************************************)
(* Range and clamp.  A range is [min, max], each bound an Option; the      *)
(* values are numbers ordered by N.Ord.                                    *)
(***************************************************************************)
Range(min, max) == [min |-> min, max |-> max]

\* N.Ord.compare
compare(x, y) == IF x.n < y.n THEN 0 - 1 ELSE IF x.n > y.n THEN 1 ELSE 0

\* Mutant of clamp: the second stage compares the value it was given, not the
\* value the first stage produced.
clampStale(range, v) ==
    LET lo == IF range.min = None THEN v ELSE range.min[1]
        v1 == IF compare(v, lo) >= 0 THEN v ELSE lo
        hi == IF range.max = None THEN v ELSE range.max[1]
    IN  IF compare(v, hi) <= 0 THEN v1 ELSE hi

\* flow(v => compare(v, min ?? v) >= 0 ? v : min ?? v,
\*      v => compare(v, max ?? v) <= 0 ? v : max ?? v)
clamp(range, v) ==
    LET lo == IF range.min = None THEN v ELSE range.min[1]
        v1 == IF compare(v, lo) >= 0 THEN v ELSE lo
        hi == IF range.max = None THEN v1 ELSE range.max[1]
    IN  IF compare(v1, hi) <= 0 THEN v1 ELSE hi

(***************************************************************************)
(* AbstractBoundAttribute.  A bound attribute is an attribute with a       *)
(* `range`: none, a constant range given to the constructor, or a getRange *)
(* overridden to depend on the context (the tests' OneYearApart).          *)
(***************************************************************************)
BoundAttribute(name, key, updatable, range) ==
    [name |-> name, key |-> key, updatable |-> updatable, range |-> range]

NoRange == [kind |-> "none", min |-> None, max |-> None]
ConstRange(min, max) == [kind |-> "const", min |-> min, max |-> max]
OneYearApart == [kind |-> "apart", min |-> None, max |-> None]

getRange(attr, context) ==
    CASE attr.range.kind = "none"  -> None
      [] attr.range.kind = "const" -> Some(Range(attr.range.min, attr.range.max))
      [] attr.range.kind = "apart" ->
            LET age == context.actors[attr.key].age.n
            IN  Some(Range(Some(Num(age - 1)), Some(Num(age + 1))))

\* The range, if any, applied to a value.
clamped(attr, context, v) ==
    LET r == getRange(attr, context)
    IN  IF r = None THEN v ELSE clamp(r[1], v)

boundGet(attr, context) ==
    LET g == get(attr, context)
    IN  IF isLeft(g) THEN g ELSE Right(clamped(attr, context, g.right))

\* Mutant of boundSet: the value is written as given.
boundSetUnclamped(attr, value, context) == set(attr, value, context)

\* Mutant of boundSet: the range is taken from the context the write produces.
boundSetCandidateRange(attr, value, context) ==
    LET s == set(attr, value, context)
    IN  IF isLeft(s) THEN s ELSE set(attr, clamped(attr, s.right, value), context)

boundSet(attr, value, context) == set(attr, clamped(attr, context, value), context)

\* setRaw, modify and modifyRaw are inherited: their this.get and this.set
\* are the overrides above.
\* Mutant of boundSetRaw: a number is clamped into the range before it is
\* validated.
boundSetRawClampFirst(attr, value, context) ==
    LET c == IF value.t = "number" THEN clamped(attr, context, value) ELSE value
        v == validate(attr, c)
        s == IF isLeft(v) THEN v ELSE boundSet(attr, v.right, context)
    IN  IF isLeft(s) THEN s ELSE checkUpdatable(attr, s.right)

boundSetRaw(attr, value, context) ==
    LET v == validate(attr, value)
        s == IF isLeft(v) THEN v ELSE boundSet(attr, v.right, context)
    IN  IF isLeft(s) THEN s ELSE checkUpdatable(attr, s.right)

\* Mutant of boundModify: the modifier is given the stored value.
boundModifyStored(attr, f, context) ==
    LET g == get(attr, context)
        m == IF isLeft(g) THEN g ELSE Right(Apply(f, g.right))
    IN  [result |-> IF isLeft(m) THEN m ELSE boundSet(attr, m.right, context),
         calls |-> IF isLeft(g) THEN 0 ELSE 1]

boundModify(attr, f, context) ==
    LET g == boundGet(attr, context)
        m == IF isLeft(g) THEN g ELSE Right(Apply(f, g.right))
    IN  [result |-> IF isLeft(m) THEN m ELSE boundSet(attr, m.right, context),
         calls |-> IF isLeft(g) THEN 0 ELSE 1]

boundModifyRaw(attr, f, context) ==
    LET g == boundGet(attr, context)
        m == IF isLeft(g) THEN g ELSE Right(Apply(f, g.right))
        v == IF isLeft(m) THEN m ELSE validate(attr, m.right)
    IN  [result |-> IF isLeft(v) THEN v ELSE boundSet(attr, v.right, context),
         calls |-> IF isLeft(g) THEN 0 ELSE 1]

(***************************************************************************)
(* The bound attributes of the tests (age, minorAge, adultAge, teenAge,    *)
(* OneYearApart) and one whose constructor was given min > max, applied to *)
(* a context a caller threads through them.                                *)
(***************************************************************************)
BoundRanges ==
    {NoRange,
     ConstRange(None, Some(Num(17))),
     ConstRange(Some(Num(18)), None),
     ConstRange(Some(Num(10)), Some(Num(19))),
     ConstRange(Some(Num(19)), Some(Num(10))),
     OneYearApart}

BoundAttrs == {BoundAttribute("age", "player", u, r) : u \in BOOLEAN, r \in BoundRanges}

withAge(age) == [actors |-> [k \in {"player"} |-> ActorData(k, "Anna", age)]]

BoundWorlds == {World({})} \cup {withAge(a) : a \in {5, 14, 24}}

TypedAges == {Num(9), Num(10), Num(15), Num(19), Num(20), Num(27)}

RawAges == {Num(10), Num(20), Num(0 - 30), Str("Xanthias")}

\* OneYearApart.getRange reads the player's age: it is only asked for the
\* range of a context that holds the player.
HasRange(attr, c) == attr.range.kind = "apart" => attr.key \in DOMAIN c.actors

BoundGet ==
    \E attr \in BoundAttrs :
        /\ call' = Call("get", attr, NoValue, "", ctx, boundGet(attr, ctx), 0)
        /\ ctx' = ctx

BoundSet ==
    \E attr \in BoundAttrs : \E v \in TypedAges :
        /\ HasRange(attr, ctx)
        /\ LET r == boundSet(attr, v, ctx)
           IN  /\ Bounded(Threaded(r))
               /\ call' = Call("set", attr, v, "", ctx, r, 0)
               /\ ctx' = Threaded(r)

BoundSetRaw ==
    \E attr \in BoundAttrs : \E v \in RawAges :
        /\ HasRange(attr, ctx)
        /\ LET r == boundSetRaw(attr, v, ctx)
           IN  /\ Bounded(Threaded(r))
               /\ call' = Call("setRaw", attr, v, "", ctx, r, 0)
               /\ ctx' = Threaded(r)

BoundModify ==
    \E attr \in BoundAttrs : \E f \in {"older"} :
        LET r == boundModify(attr, f, ctx)
        IN  /\ Bounded(Threaded(r.result))
            /\ call' = Call("modify", attr, NoValue, f, ctx, r.result, r.calls)
            /\ ctx' = Threaded(r.result)

BoundModifyRaw ==
    \E attr \in BoundAttrs : \E f \in {"older", "negate"} :
        LET r == boundModifyRaw(attr, f, ctx)
        IN  /\ Bounded(Threaded(r.result))
            /\ call' = Call("modifyRaw", attr, NoValue, f, ctx, r.result, r.calls)
            /\ ctx' = Threaded(r.result)

BoundStart ==
    /\ ctx \in BoundWorlds
    /\ call = NoCall

BoundInit == BoundStart /\ GameIdle(World({})) /\ probe = NoProbe /\ look = NoLook

BoundStep == BoundGet \/ BoundSet \/ BoundSetRaw \/ BoundModify \/ BoundModifyRaw

BoundNext == BoundStep /\ UNCHANGED <<gameVars, probe, look>>

BoundSpec == BoundInit /\ [][BoundNext]_vars

(***************************************************************************)
(* RangeT(T.number, N.Ord), the codec of the tests' NumberRange, and clamp *)
(* on their own: a range and a value are drawn, then `is`, `validate` and  *)
(* `clamp` are applied to them.                                            *)
(***************************************************************************)
MaxBound == 3

\* T.readonly(T.partial({min: type, max: type})) with type = T.number
rawTypeIs(i) ==
    \A b \in {i.min, i.max} : IF b = None THEN TRUE ELSE b[1].t = "number"

rawTypeErrors(i) ==
    (IF i.min = None \/ i.min[1].t = "number" THEN <<>>
     ELSE << <<"Invalid value ", Stringify(i.min[1]), " supplied to : ", "Range/min: number">> >>)
    \o
    (IF i.max = None \/ i.max[1].t = "number" THEN <<>>
     ELSE << <<"Invalid value ", Stringify(i.max[1]), " supplied to : ", "Range/max: number">> >>)

\* min === undefined || max === undefined || ord.compare(min, max) <= 0
inOrder(i) == i.min = None \/ i.max = None \/ compare(i.min[1], i.max[1]) <= 0

\* Mutant of RangeT_is: equal bounds are refused.
RangeT_isStrict(i) ==
    rawTypeIs(i) /\ (i.min = None \/ i.max = None \/ compare(i.min[1], i.max[1]) < 0)

RangeT_is(i) == rawTypeIs(i) /\ inOrder(i)

RangeT_validate(i) ==
    IF ~rawTypeIs(i) THEN Left(rawTypeErrors(i))
    ELSE IF inOrder(i) THEN Right(i)
    ELSE Left(<< <<"The max value(", Stringify(i.max[1]),
                   ") should be equal to or greater than the min value(",
                   Stringify(i.min[1]), ").">> >>)

\* The bounds a number range can have, and what else a caller can hand to
\* the codec in their place.
NumberBounds == {None} \cup {Some(Num(n)) : n \in 0 .. MaxBound}
RawBounds == NumberBounds \cup {Some(Str("c"))}

RangeInit ==
    /\ probe \in {Fresh(Range(min, max), Num(v)) :
                    min \in RawBounds, max \in RawBounds, v \in 0 .. MaxBound + 1}
    /\ ctx = World({})
    /\ call = NoCall
    /\ look = NoLook
    /\ GameIdle(World({}))

\* clamp(range, N.Ord) applied once and twice to the value.
ApplyClamp ==
    /\ probe.op = "none"
    /\ rawTypeIs(probe.range)
    /\ probe' = [probe EXCEPT !.op = "clamp",
                              !.once = clamp(probe.range, probe.v),
                              !.twice = clamp(probe.range, clamp(probe.range, probe.v))]

\* NumberRange.is and NumberRange.validate applied to the range.
ApplyRangeT ==
    /\ probe.op = "none"
    /\ probe' = [probe EXCEPT !.op = "RangeT",
                              !.is = RangeT_is(probe.range),
                              !.validated = RangeT_validate(probe.range)]

RangeStep == ApplyClamp \/ ApplyRangeT

RangeNext == RangeStep /\ UNCHANGED <<gameVars, ctx, call, look>>

RangeSpec == RangeInit /\ [][RangeNext]_vars

(***************************************************************************)
(* AbstractActorHolder.find, and the holder used on its own: a caller      *)
(* looks an actor up, reads or writes its name through the accessor, or    *)
(* searches by predicate.  The contexts are the values ActorDataHolderT    *)
(* accepts: a record of actor data under each key, whose own `id` is not   *)
(* compared with the key.                                                  *)
(***************************************************************************)
\* The predicates handed to find, as functions of the actor's data.
Satisfies(pred, data) ==
    CASE pred = "any"    -> TRUE
      [] pred = "isAnna" -> data.name = Str("Anna")
      [] pred = "nobody" -> FALSE

\* R.toEntries lists the entries in the order of their keys.
KeyOrder == <<"npc", "player">>

\* A.filterMap(this.findByData)
RECURSIVE filterMapFindByData(_)
filterMapFindByData(datas) ==
    IF datas = <<>> THEN <<>>
    ELSE findByData(Head(datas)) \o filterMapFindByData(Tail(datas))

find(pred, context) ==
    LET r == getOptic(<<At("actors")>>, context)
        actors == IF isLeft(r) THEN <<>> ELSE r.right
        keys == SelectSeq(KeyOrder, LAMBDA k : k \in DOMAIN actors)
        datas == [i \in 1 .. Len(keys) |-> actors[keys[i]]]
    IN  filterMapFindByData(SelectSeq(datas, LAMBDA d : Satisfies(pred, d)))

\* BaseActor.name: the name attribute at actors.key(id)
NameOf(a) == Attribute("name", a.s, TRUE)

RecordIds == ActorIds \cup {"ghost"}

HolderWorlds ==
    {[actors |-> w] :
        w \in UNION {[ids -> {ActorData(i, n, 41) : i \in RecordIds, n \in {"Anna", "Xanthias"}}] :
                        ids \in SUBSET ActorIds}}

HolderInit ==
    /\ ctx \in HolderWorlds
    /\ look = NoLook
    /\ call = NoCall
    /\ probe = NoProbe
    /\ GameIdle(World({}))

\* pipe(holder.get(id)(context), E.chain(a => a.name.get(context)))
HolderRead ==
    \E id \in RecordIds :
        LET got == holderGet(id, ctx)
        IN  /\ look' = Look("read", id, "", NoValue, ctx, findById(id, ctx), got, <<>>,
                            IF isLeft(got) THEN got ELSE get(NameOf(got.right), ctx),
                            Right(ctx))
            /\ ctx' = ctx

\* pipe(holder.get(id)(context), E.chain(a => a.name.set(v)(context)))
HolderWrite ==
    \E id \in RecordIds : \E v \in {Str("Anna"), Str("Xanthias")} :
        LET got == holderGet(id, ctx)
            wrote == IF isLeft(got) THEN got ELSE set(NameOf(got.right), v, ctx)
        IN  /\ look' = Look("write", id, "", v, ctx, findById(id, ctx), got, <<>>,
                            Right(NoValue), wrote)
            /\ ctx' = Threaded(wrote)

HolderFind ==
    \E pred \in {"any", "isAnna", "nobody"} :
        /\ look' = Look("find", "", pred, NoValue, ctx, None, Right(ActorRef("")),
                        find(pred, ctx), Right(NoValue), Right(ctx))
        /\ ctx' = ctx

HolderStep == HolderRead \/ HolderWrite \/ HolderFind

HolderNext == HolderStep /\ UNCHANGED <<gameVars, call, probe>>

HolderSpec == HolderInit /\ [][HolderNext]_vars

(***************************************************************************)
(* eqId: the Eq of identifiable values.  Three values are drawn and        *)
(* `equals` is applied to their pairs.                                     *)
(***************************************************************************)
\* Mutant of eqId: the values are compared as wholes.
eqIdWhole(x, y) == x = y

\* fromEquals((x, y) => x.id === y.id)
eqId(x, y) == x.id = y.id

\* Identifiable values: an id and, as the actors have, a name beside it.
Identifiables ==
    {[id |-> i, name |-> Str(n)] : i \in {"player", "anna", "npc"}, n \in {"Anna", "Xanthias"}}

EqProbe(op, x, y, z, xy, yx, yz, xz, xx) ==
    [op |-> op, x |-> x, y |-> y, z |-> z,
     xy |-> xy, yx |-> yx, yz |-> yz, xz |-> xz, xx |-> xx]

EqInit ==
    /\ probe \in {EqProbe("none", x, y, z, FALSE, FALSE, FALSE, FALSE, FALSE) :
                    x \in Identifiables, y \in Identifiables, z \in Identifiables}
    /\ ctx = World({})
    /\ call = NoCall
    /\ look = NoLook
    /\ GameIdle(World({}))

ApplyEqId ==
    /\ probe.op = "none"
    /\ probe' = [probe EXCEPT !.op = "equals",
                              !.xy = eqId(probe.x, probe.y),
                              !.yx = eqId(probe.y, probe.x),
                              !.yz = eqId(probe.y, probe.z),
                              !.xz = eqId(probe.x, probe.z),
                              !.xx = eqId(probe.x, probe.x)]

EqNext == ApplyEqId /\ UNCHANGED <<gameVars, ctx, call, look>>

EqSpec == EqInit /\ [][EqNext]_vars

(***************************************************************************)
(* Composition of optics.  A composed optic is the tree of its `compose`   *)
(* calls over the elements At and Key; its get reads through the first     *)
(* part and then the second, its set reads the first part's focus, writes  *)
(* the second part in it and puts the result back through the first part.  *)
(***************************************************************************)
Compose(l, r) == [k |-> "compose", l |-> l, r |-> r]

RECURSIVE focusGet(_, _)
focusGet(o, s) ==
    IF o.k = "compose"
    THEN LET a == focusGet(o.l, s)
         IN  IF isLeft(a) THEN a ELSE focusGet(o.r, a.right)
    ELSE getOptic(<<o>>, s)

\* Mutant of focusSet: a composition that starts with a key returns what its
\* second part wrote instead of putting it back under the key.
RECURSIVE focusSetKeyFirst(_, _, _)
focusSetKeyFirst(o, v, s) ==
    IF o.k = "compose"
    THEN LET a == focusGet(o.l, s)
             b == IF isLeft(a) THEN a ELSE focusSetKeyFirst(o.r, v, a.right)
         IN  IF isLeft(b) THEN b
             ELSE IF o.l.k = "key" THEN b
             ELSE focusSetKeyFirst(o.l, b.right, s)
    ELSE setOptic(<<o>>, v, s)

RECURSIVE focusSet(_, _, _)
focusSet(o, v, s) ==
    IF o.k = "compose"
    THEN LET a == focusGet(o.l, s)
             b == IF isLeft(a) THEN a ELSE focusSet(o.r, v, a.right)
         IN  IF isLeft(b) THEN b ELSE focusSet(o.l, b.right, s)
    ELSE setOptic(<<o>>, v, s)

\* The three foci of an attribute of an actor, composed in the two groupings.
LeftFirst(key, field) == Compose(Compose(At("actors"), Key(key)), At(field))
RightFirst(key, field) == Compose(At("actors"), Compose(Key(key), At(field)))

FocusProbe(op, s, key, field, v, getL, getR, setL, setR) ==
    [op |-> op, s |-> s, key |-> key, field |-> field, v |-> v,
     getL |-> getL, getR |-> getR, setL |-> setL, setR |-> setR]

FocusInit ==
    /\ probe \in {FocusProbe("none", s, key, field, v, Right(v), Right(v), Right(s), Right(s)) :
                    s \in HolderWorlds, key \in RecordIds, field \in {"name", "age"},
                    v \in {Str("Xanthias"), Num(42)}}
    /\ ctx = World({})
    /\ call = NoCall
    /\ look = NoLook
    /\ GameIdle(World({}))

ApplyFoci ==
    /\ probe.op = "none"
    /\ probe' = [probe EXCEPT
                    !.op = "compose",
                    !.getL = focusGet(LeftFirst(probe.key, probe.field), probe.s),
                    !.getR = focusGet(RightFirst(probe.key, probe.field), probe.s),
                    !.setL = focusSet(LeftFirst(probe.key, probe.field), probe.v, probe.s),
                    !.setR = focusSet(RightFirst(probe.key, probe.field), probe.v, probe.s)]

FocusNext == ApplyFoci /\ UNCHANGED <<gameVars, ctx, call, look>>

FocusSpec == FocusInit /\ [][FocusNext]_vars

(***************************************************************************)
(* BaseWorld: the stateless counterpart of BaseGame.  get and update take  *)
(* the snapshot as an argument (a Reader) and update returns the final     *)
(* context instead of storing it.  Both are run side by side on one        *)
(* snapshot and one pipeline, a step at a time: `game` is the record of    *)
(* BaseGame.update constructed on s, `reader` that of BaseWorld.update     *)
(* applied to s.                                                           *)
(***************************************************************************)
worldBind(name, f, m) ==
    IF isLeft(m) THEN m
    ELSE LET a == m.right
             v == Invoke(f, a, a.context)
         IN  IF isLeft(v) THEN v ELSE Right(Assign(a, name, v.right))

\* Mutant of worldUpdate: the record keeps the context it had.
worldUpdateKeepsContext(f, m) ==
    IF isLeft(m) THEN m
    ELSE LET a == m.right
             context == Invoke(f, a, a.context)
         IN  IF isLeft(context) THEN context ELSE Right(a)

worldUpdate(f, m) ==
    IF isLeft(m) THEN m
    ELSE LET a == m.right
             context == Invoke(f, a, a.context)
         IN  IF isLeft(context) THEN context
             ELSE Right([k \in DOMAIN a |-> IF k = "context" THEN context.right ELSE a[k]])

worldMap(f, m) == IF isLeft(m) THEN m ELSE Right(Transform(f, m.right))

\* update(f)(world): pipe(f({Do, bind, update, map}), E.map(({context}) => context))
worldResult(m) == IF isLeft(m) THEN m ELSE Right(m.right.context)

Run(op, s, n, game, reader, gameResult, stored, readerResult) ==
    [op |-> op, s |-> s, n |-> n, game |-> game, reader |-> reader,
     gameResult |-> gameResult, stored |-> stored, readerResult |-> readerResult]

WorldInit ==
    /\ probe \in {Run("begin", s, 0, Do(s), Do(s), Do(s), s, Do(s)) : s \in InitialWorlds}
    /\ ctx = World({})
    /\ call = NoCall
    /\ look = NoLook
    /\ GameIdle(World({}))

RunStep(game, reader) ==
    /\ isRight(game) => Bounded(game.right.context)
    /\ probe' = [probe EXCEPT !.op = "step", !.n = probe.n + 1,
                              !.game = game, !.reader = reader]

RunBind ==
    /\ probe.op \in {"begin", "step"}
    /\ probe.n < MaxSteps
    /\ \E f \in BindFns :
          RunStep(bind(Names[probe.n + 1], f, probe.game).ma,
                  worldBind(Names[probe.n + 1], f, probe.reader))

RunUpdate ==
    /\ probe.op \in {"begin", "step"}
    /\ probe.n < MaxSteps
    /\ \E f \in UpdateFns :
          /\ WellTyped(f, probe.game)
          /\ RunStep(update(f, probe.game).ma, worldUpdate(f, probe.reader))

RunMap ==
    /\ probe.op \in {"begin", "step"}
    /\ probe.n < MaxSteps
    /\ \E f \in MapFns : RunStep(map(f, probe.game).ma, worldMap(f, probe.reader))

RunEnd ==
    /\ probe.op \in {"begin", "step"}
    /\ probe' = [probe EXCEPT !.op = "end",
                              !.gameResult = probe.game,
                              !.stored = commit(probe.game, probe.s).world,
                              !.readerResult = worldResult(probe.reader)]

WorldNext == (RunBind \/ RunUpdate \/ RunMap \/ RunEnd) /\ UNCHANGED <<gameVars, ctx, call, look>>

WorldSpec == WorldInit /\ [][WorldNext]_vars

(***************************************************************************)
(* Attributes whose isUpdatable is computed from the context: set on the   *)
(* player's age and name under the policies of Policy, as well as under    *)
(* the constructor's constant option.                                      *)
(***************************************************************************)
PolicyAttrs ==
    {PolicyAttribute(n, "player", p) : n \in {"age", "name"}, p \in {"minor", "adult"}}
    \cup {Attribute("age", "player", u) : u \in BOOLEAN}

PolicyInit ==
    /\ ctx \in BoundWorlds
    /\ call = NoCall
    /\ probe = NoProbe
    /\ look = NoLook
    /\ GameIdle(World({}))

PolicySet ==
    \E attr \in PolicyAttrs :
        \E v \in IF attr.name = "age" THEN TypedAges ELSE TypedValues(attr) :
            LET r == set(attr, v, ctx)
            IN  /\ call' = Call("set", attr, v, "", ctx, r, 0)
                /\ ctx' = Threaded(r)

PolicyNext == PolicySet /\ UNCHANGED <<gameVars, probe, look>>

PolicySpec == PolicyInit /\ [][PolicyNext]_vars

(***************************************************************************)
(* Health and damage.  A damageable target carries a HealthAttribute (the  *)
(* plain attribute "health", decoded by Health, updatable); damage is its  *)
(* modifyRaw with the modifier v => v - amount.  A caller threads a        *)
(* context through a sequence of damage calls.                             *)
(***************************************************************************)
MaxHealth == 7

HealthAttribute(key) == Attribute("health", key, TRUE)

Damageable(key) == [health |-> HealthAttribute(key)]

\* Mutant of damage: the modifier's value is written without being decoded
\* (modify in place of modifyRaw).
damageUnvalidated(target, amount, context) ==
    LET g == get(target.health, context)
        m == IF isLeft(g) THEN g ELSE Right(Num(g.right.n - amount.n))
    IN  IF isLeft(m) THEN m ELSE set(target.health, m.right, context)

\* target.health.modifyRaw(v => v - amount)
damage(target, amount, context) ==
    LET g == get(target.health, context)
        m == IF isLeft(g) THEN g ELSE Right(Num(g.right.n - amount.n))
        v == IF isLeft(m) THEN m ELSE validate(target.health, m.right)
    IN  IF isLeft(v) THEN v ELSE set(target.health, v.right, context)

withHealth(h) ==
    [actors |-> [k \in {"player"} |-> [id |-> k, name |-> Str("Anna"), health |-> Num(h)]]]

\* The amounts a caller can pass: values of type Health.
Amounts == {Num(n) : n \in 0..(MaxHealth + 1)}

DamageInit ==
    /\ ctx \in {withHealth(h) : h \in 0..MaxHealth}
    /\ call = NoCall
    /\ probe = NoProbe
    /\ look = NoLook
    /\ GameIdle(World({}))

Damage ==
    \E id \in ActorIds : \E amount \in Amounts :
        LET r == damage(Damageable(id), amount, ctx)
        IN  /\ call' = Call("damage", HealthAttribute(id), amount, "", ctx, r, 0)
            /\ ctx' = Threaded(r)

DamageNext == Damage /\ UNCHANGED <<gameVars, probe, look>>

DamageSpec == DamageInit /\ [][DamageNext]_vars

(***************************************************************************)
(* LoreDocumentLoader.  The source loader either throws or returns its     *)
(* documents; createTask parses every document it returned and collects    *)
(* the results (TE.traverseArray: the first error in source order, or all  *)
(* the results), flattened; load settles a promise with the task's result. *)
(* The parser is taken by its results on four texts: two that parse, to    *)
(* one and to two entries, and two whose title is too long.                *)
(***************************************************************************)
MaxDocs == 3

TitleSeparator == ": "

Entry(title, content, constant) ==
    [title |-> title, content |-> content, metadata |-> [constant |-> constant]]

LoreParseError(title) ==
    [type |-> "LoreParse",
     message |-> <<"Failed to parse the lore title: ", title, ".">>,
     details |-> <<"Must be equal to or shorter than 200 characters.">>]

parseText(text) ==
    CASE text = "headed" -> Right(<<Entry(Some("Page 2"), "Text with a heading.", FALSE)>>)
      [] text = "paged"  -> Right(<<Entry(None, "Text without a heading.", TRUE),
                                    Entry(Some("Page 1"), "First section.", TRUE)>>)
      [] text = "longA"  -> Left(LoreParseError("AAA"))
      [] text = "longB"  -> Left(LoreParseError("BBB"))

\* pipe(title, A.fromOption, A.append(content)).join(this.titleSeparator)
toDocument(entry) ==
    [pageContent |-> IF entry.title = None THEN <<entry.content>>
                     ELSE <<entry.title[1], TitleSeparator, entry.content>>,
     metadata |-> entry.metadata]

\* {...metadata, ...d.metadata}
Merge(a, b) == [k \in DOMAIN a \cup DOMAIN b |-> IF k \in DOMAIN b THEN b[k] ELSE a[k]]

parse(source) ==
    LET r == parseText(source.pageContent)
    IN  IF isLeft(r) THEN r
        ELSE Right([i \in DOMAIN r.right |->
                       LET d == toDocument(r.right[i])
                       IN  [pageContent |-> d.pageContent,
                            metadata |-> Merge(source.metadata, d.metadata)]])

IOError(e) ==
    [type |-> "IO", message |-> <<"Failed to load source documents.">>, details |-> e]

RECURSIVE flatten(_)
flatten(xss) == IF xss = <<>> THEN <<>> ELSE Head(xss) \o flatten(Tail(xss))

\* Mutant of collect: the documents that failed to parse are left out.
collectParsed(results) ==
    LET ok == SelectSeq(results, isRight)
    IN  Right(flatten([i \in DOMAIN ok |-> ok[i].right]))

\* TE.traverseArray(...) then TE.map(A.flatten), on the results of parse
collect(results) ==
    IF \E i \in DOMAIN results : isLeft(results[i])
    THEN results[CHOOSE i \in DOMAIN results :
                    /\ isLeft(results[i])
                    /\ \A j \in 1..(i - 1) : isRight(results[j])]
    ELSE Right(flatten([i \in DOMAIN results |-> results[i].right]))

Texts == {"headed", "paged", "longA", "longB"}

SourceDocs(n) ==
    {[i \in 1..n |-> [pageContent |-> t[i], metadata |-> [id |-> i]]] : t \in [1..n -> Texts]}

\* What this.source.load() does: it throws, or returns documents.
Sources ==
    {Left("No documents found.")}
    \cup {Right(docs) : docs \in UNION {SourceDocs(n) : n \in 0..MaxDocs}}

Pending == [state |-> "pending", value |-> <<>>]

Loader(at, source, results, task, promise) ==
    [pc |-> at, source |-> source, results |-> results, task |-> task, promise |-> promise]

LoaderInit ==
    /\ probe \in {Loader("start", s, <<>>, Right(<<>>), Pending) : s \in Sources}
    /\ ctx = World({})
    /\ call = NoCall
    /\ look = NoLook
    /\ GameIdle(World({}))

\* TE.tryCatch(() => this.source.load(), e => IOError)
LoadSource ==
    /\ probe.pc = "start"
    /\ probe' = IF isLeft(probe.source)
                THEN [probe EXCEPT !.pc = "done", !.task = Left(IOError(probe.source.left))]
                ELSE [probe EXCEPT !.pc = "parsing"]

\* flow(this.parse, TE.fromEither) on the next document
ParseNext ==
    /\ probe.pc = "parsing"
    /\ Len(probe.results) < Len(probe.source.right)
    /\ probe' = [probe EXCEPT !.results =
                    Append(probe.results, parse(probe.source.right[Len(probe.results) + 1]))]

Collect ==
    /\ probe.pc = "parsing"
    /\ Len(probe.results) = Len(probe.source.right)
    /\ probe' = [probe EXCEPT !.pc = "done", !.task = collect(probe.results)]

\* load(): TE.fold(e => Promise.reject(e), d => Promise.resolve(A.toArray(d)))
Settle ==
    /\ probe.pc = "done"
    /\ probe' = [probe EXCEPT !.pc = "settled",
                    !.promise = IF isLeft(probe.task)
                                THEN [state |-> "rejected", value |-> probe.task.left]
                                ELSE [state |-> "resolved", value |-> probe.task.right]]

LoaderNext ==
    (LoadSource \/ ParseNext \/ Collect \/ Settle) /\ UNCHANGED <<gameVars, ctx, call, look>>

LoaderSpec == LoaderInit /\ [][LoaderNext]_vars

(***************************************************************************)
(* Properties of the BaseGame pipeline (checked under Spec).               *)
(***************************************************************************)
Contains(message, part) == \E i \in DOMAIN message : message[i] = part

Failed == failure # <<>>

\* C1: after an update whose pipeline returned an error, and after any get,
\* the stored snapshot is the one stored before the call, and the error of
\* the pipeline is what the call returned.
C1_FailedUpdateOrGetKeepsSnapshot ==
    (pc = "idle" /\ (mode = "get" \/ (mode = "update" /\ Failed))) =>
        /\ world = pre
        /\ writes = 0
        /\ Failed => (isLeft(result) /\ result = failure[1])

\* An update call has finished with an error after an earlier update step of
\* the same pipeline had already produced a context different from the snapshot.
C1_Witness ==
    /\ pc = "idle" /\ mode = "update" /\ Failed
    /\ isRight(step.before) /\ step.before.right.context # pre
    /\ isLeft(step.after)

\* C2: after an update whose pipeline returned a success, the stored snapshot
\* is the context of the returned record.
C2_SuccessfulUpdateStoresFinalContext ==
    (pc = "idle" /\ mode = "update" /\ isRight(result)) =>
        world = result.right.context

\* The player was renamed from Anna to Xanthias by a finished update call.
C2_Witness ==
    /\ pc = "idle" /\ mode = "update" /\ isRight(result)
    /\ "player" \in DOMAIN pre.actors
    /\ pre.actors["player"].name = Str("Anna")
    /\ world.actors["player"].name = Str("Xanthias")

\* C3: while the steps of an update pipeline run, the stored snapshot is still
\* the one stored before the call and has not been written; a call writes it
\* at most once and invokes the pipeline function exactly once.
C3_NoWriteBeforeTheEnd ==
    mode = "update" =>
        /\ pc = "running" => (world = pre /\ writes = 0)
        /\ writes <= 1
        /\ invocations = 1

\* An update step has produced a new context and the call has not finished.
C3_Witness ==
    /\ pc = "running" /\ mode = "update"
    /\ step.kind = "update" /\ isRight(ma)
    /\ ma.right.context # world

\* The context an update step function writes, given the record it is applied to.
Target(f, a) == a.context.actors[f.attr.key][f.attr.name]

Written(f, a) ==
    CASE f.fn \in {"set", "setRaw"}       -> f.value
      [] f.fn = "setFrom"                 -> a[f.arg]
      [] f.fn \in {"modify", "modifyRaw"} -> Apply(f.arg, Target(f, a))

\* C4: a successful update step keeps every binding of the record it was given
\* and replaces its context by that context with the targeted field written;
\* the record it is given is the one the previous step produced, so a modifier
\* reads the value the previous update wrote.
C4_UpdateStepsChain ==
    [][(idx' = idx + 1 /\ step'.kind = "update" /\ isRight(ma')) =>
          /\ isRight(ma)
          /\ step'.before = ma
          /\ DOMAIN ma'.right = DOMAIN ma.right
          /\ \A k \in DOMAIN ma.right \ {"context"} : ma'.right[k] = ma.right[k]
          /\ ma'.right.context =
                [ma.right.context EXCEPT
                    !.actors[step'.f.attr.key][step'.f.attr.name] = Written(step'.f, ma.right)]
      ]_vars

\* Two chained steps have raised the player's age from 41 to 43: the second
\* one, a modifier, read the 42 written by the first.
C4_Witness ==
    /\ pc = "running" /\ idx = 2
    /\ step.kind = "update" /\ step.f.fn = "modify" /\ step.f.arg = "older"
    /\ isRight(ma)
    /\ pre.actors["player"].age = Num(41)
    /\ step.before.right.context.actors["player"].age = Num(42)
    /\ ma.right.context.actors["player"].age = Num(43)

\* C5: once a step has returned an error, no later step invokes its function,
\* every later step passes the error on, and the error the call returns is
\* that first error.
C5_ShortCircuit ==
    /\ isLeft(step.before) => (step.calls = 0 /\ step.after = step.before)
    /\ Failed => (pc = "running" => ma = failure[1])
    /\ (Failed /\ pc = "idle") => result = failure[1]

\* A call has finished whose last step, an update, came after the error.
C5_Witness ==
    /\ pc = "idle" /\ Failed
    /\ step.kind = "update" /\ isLeft(step.before)
    /\ result = failure[1]

(***************************************************************************)
(* Properties of the attribute operations (checked under AttrSpec).        *)
(***************************************************************************)
PathExists(attr, c) == attr.key \in DOMAIN c.actors

ErrorType(r) == IF isLeft(r) THEN r.left.type ELSE "none"

\* The value the modifier of the last call returns for the stored value.
Modified == Apply(call.f, call.input.actors[call.attr.key][call.attr.name])

\* C6: on a context in which the attribute's path is missing, get, set, modify
\* and modifyRaw return AttributeAccessError, read-only attribute or not.
C6_MissingPathIsAccessError ==
    (call.op \in {"get", "set", "modify", "modifyRaw"} /\ ~PathExists(call.attr, call.input)) =>
        ErrorType(call.result) = "AttributeAccess"

\* A read-only attribute was set on a context without its actor.
C6_Witness ==
    /\ call.op = "set" /\ ~call.attr.updatable
    /\ ~PathExists(call.attr, call.input)
    /\ ErrorType(call.result) = "AttributeAccess"

\* C7: setRaw of a value that fails the decoder returns InvalidAttributeError
\* naming the stringified value and the attribute and carrying the decoder's
\* failure descriptions, whatever the context and the policy; setRaw of a
\* value that decodes returns what set of the decoded value returns.
C7_SetRawValidatesFirst ==
    call.op = "setRaw" =>
        LET d == decode(call.attr, call.value)
        IN  IF isLeft(d)
            THEN /\ ErrorType(call.result) = "InvalidAttribute"
                 /\ Contains(call.result.left.message, Stringify(call.value))
                 /\ Contains(call.result.left.message, call.attr.name)
                 /\ call.result.left.details = d.left
                 /\ Len(call.result.left.details) >= 1
            ELSE call.result = set(call.attr, d.right, call.input)

\* An invalid value was given to setRaw of a read-only attribute on a context
\* without its actor.
C7_Witness ==
    /\ call.op = "setRaw" /\ ~call.attr.updatable
    /\ ~PathExists(call.attr, call.input)
    /\ isLeft(decode(call.attr, call.value))
    /\ ErrorType(call.result) = "InvalidAttribute"

\* C8: modifyRaw returns AttributeAccessError without invoking the modifier
\* on a missing path; InvalidAttributeError when the path exists and the
\* modifier's value fails the decoder, read-only attribute or not; and
\* ReadOnlyAttributeError only when the path exists and the value decodes.
C8_ModifyRawPrecedence ==
    call.op = "modifyRaw" =>
        IF ~PathExists(call.attr, call.input)
        THEN ErrorType(call.result) = "AttributeAccess" /\ call.calls = 0
        ELSE /\ call.calls = 1
             /\ isLeft(decode(call.attr, Modified)) =>
                    ErrorType(call.result) = "InvalidAttribute"
             /\ ErrorType(call.result) = "ReadOnlyAttribute" =>
                    (isRight(decode(call.attr, Modified)) /\ ~call.attr.updatable)

\* A modifier returned an invalid value for a read-only attribute whose path exists.
C8_Witness ==
    /\ call.op = "modifyRaw" /\ ~call.attr.updatable
    /\ PathExists(call.attr, call.input)
    /\ isLeft(decode(call.attr, Modified))
    /\ ErrorType(call.result) = "InvalidAttribute"

\* A write that gets as far as the policy check: the path exists and the value
\* (given, or returned by the modifier) is valid.
ValidWrite ==
    /\ PathExists(call.attr, call.input)
    /\ \/ call.op \in {"set", "modify"}
       \/ call.op = "setRaw" /\ isRight(decode(call.attr, call.value))
       \/ call.op = "modifyRaw" /\ isRight(decode(call.attr, Modified))

\* C9: every valid write to a read-only attribute whose path exists returns
\* ReadOnlyAttributeError naming the attribute, and no operation on a
\* read-only attribute changes the context.
C9_ReadOnlyIsNeverWritten ==
    /\ [](( ~call.attr.updatable /\ ValidWrite) =>
            /\ ErrorType(call.result) = "ReadOnlyAttribute"
            /\ Contains(call.result.left.message, call.attr.name))
    /\ [][~call'.attr.updatable => ctx' = ctx]_vars

\* modifyRaw with a valid value was refused on a read-only attribute.
C9_Witness ==
    /\ call.op = "modifyRaw" /\ ~call.attr.updatable
    /\ ValidWrite
    /\ ErrorType(call.result) = "ReadOnlyAttribute"

\* C10: the context a successful set returns has the same actors as the input
\* context, the given value in the targeted field, and every other field of
\* every record as in the input context.
C10_SetChangesOnlyTheTarget ==
    (call.op = "set" /\ isRight(call.result)) =>
        LET old == call.input.actors
            new == call.result.right.actors
        IN  /\ DOMAIN call.result.right = DOMAIN call.input
            /\ DOMAIN new = DOMAIN old
            /\ \A k \in DOMAIN old :
                  /\ DOMAIN new[k] = DOMAIN old[k]
                  /\ \A field \in DOMAIN old[k] :
                        new[k][field] =
                            IF k = call.attr.key /\ field = call.attr.name
                            THEN call.value ELSE old[k][field]

\* A set has changed a field in a context that holds another actor as well.
C10_Witness ==
    /\ call.op = "set" /\ isRight(call.result)
    /\ DOMAIN call.input.actors = ActorIds
    /\ call.result.right # call.input
    /\ ctx = call.result.right

\* The actors of two contexts: the same keys, and the same id under each key.
SameActors(old, new) ==
    /\ DOMAIN new.actors = DOMAIN old.actors
    /\ \A k \in DOMAIN old.actors : new.actors[k].id = old.actors[k].id

\* An update step applied to a context that has no record for its actor.
OnMissingActor ==
    /\ step.kind = "update" /\ isRight(step.before)
    /\ step.f.attr.key \notin DOMAIN step.before.right.context.actors

\* C11: the context an attribute write returns, every context the pipeline
\* produces and every snapshot the game stores have the keys of `actors` and
\* the id of every record as they were in the context written to;
\* a write to an actor that is not in the context fails and creates nothing.
C11_ActorsAndIdsNeverChange ==
    /\ []((step.kind = "update" /\ isRight(step.after)) =>
            SameActors(step.before.right.context, step.after.right.context))
    /\ [](isRight(ma) => SameActors(pre, ma.right.context))
    /\ [](OnMissingActor => isLeft(step.after) /\ isLeft(ma))
    /\ [][SameActors(world, world')]_vars

\* A pipeline has changed one actor's record and then failed on a write to an
\* actor the context does not hold.
C11_Witness ==
    /\ OnMissingActor /\ ErrorType(step.after) = "AttributeAccess"
    /\ step.before.right.context # pre
    /\ SameActors(pre, step.before.right.context)
    /\ world = pre

\* The value a call stored in, and the value it found in, the targeted field.
Stored == call.result.right.actors[call.attr.key][call.attr.name]
Found == call.input.actors[call.attr.key][call.attr.name]

\* The value a write hands to set: the given value, or the modifier applied to
\* what get returned.
Candidate ==
    IF call.op \in {"set", "setRaw"} THEN call.value
    ELSE LET r == getRange(call.attr, call.input)
         IN  Apply(call.f, IF r = None THEN Found ELSE clamp(r[1], Found))

\* C12: the value a successful write through a bound attribute stores is the
\* value handed to set clamped with the range of the context the write was
\* applied to (the value itself when there is no range), not with the range
\* of the context the write produces; with the range [age-1, age+1] and an
\* age of 24, set(20) stores 23 and set(27) stores 25.
C12_SetClampsWithThePreWriteRange ==
    (call.op \in {"set", "setRaw", "modify", "modifyRaw"} /\ isRight(call.result)) =>
        LET r == getRange(call.attr, call.input)
        IN  /\ Stored = IF r = None THEN Candidate ELSE clamp(r[1], Candidate)
            /\ (call.attr.range.kind = "apart" /\ Found = Num(24)) =>
                  /\ call.value = Num(20) => Stored = Num(23)
                  /\ call.value = Num(27) => Stored = Num(25)

\* With the range [age-1, age+1] and an age of 24, set(20) has stored 23.
C12_Witness ==
    /\ call.op = "set" /\ isRight(call.result)
    /\ call.attr.range.kind = "apart"
    /\ Found = Num(24) /\ call.value = Num(20)
    /\ Stored = Num(23)
    /\ ctx = call.result.right

\* A range whose bounds are in order, and a value within a range.
Ordered(r) == r.min = None \/ r.max = None \/ r.min[1].n <= r.max[1].n

Within(r, v) ==
    /\ r.min # None => r.min[1].n <= v.n
    /\ r.max # None => v.n <= r.max[1].n

\* C13: with a constant range whose bounds are in order, the value a
\* successful set, setRaw, modify or modifyRaw stores is within the range,
\* whatever value or modifier was given and whatever was stored before.
C13_WritesStoreWithinTheRange ==
    (/\ call.op \in {"set", "setRaw", "modify", "modifyRaw"}
     /\ isRight(call.result)
     /\ call.attr.range.kind = "const"
     /\ Ordered(call.attr.range)) =>
        Within(call.attr.range, Stored)

\* With the range {min: 18} and a stored age of 14, set(10) has stored 18.
C13_Witness ==
    /\ call.op = "set" /\ isRight(call.result)
    /\ call.attr.range = ConstRange(Some(Num(18)), None)
    /\ Found = Num(14) /\ call.value = Num(10)
    /\ Stored = Num(18)
    /\ ctx = call.result.right

\* C14: get on a bound attribute returns the stored value clamped into the
\* range of the given context (the range's min when the stored value is below
\* it, its max when the stored value is above it, the stored value itself
\* when it is within the range or there is no range) and leaves the context,
\* and so an out-of-range stored value, as it was.
C14_GetClampsIntoTheRange ==
    (call.op = "get" /\ PathExists(call.attr, call.input)) =>
        LET r == getRange(call.attr, call.input)
        IN  /\ isRight(call.result)
            /\ call.result.right =
                  IF r = None THEN Found
                  ELSE IF r[1].min # None /\ Found.n < r[1].min[1].n THEN r[1].min[1]
                  ELSE IF r[1].max # None /\ Found.n > r[1].max[1].n THEN r[1].max[1]
                  ELSE Found
            /\ ctx = call.input

\* C15: for every range (min only, max only, both or neither) and every
\* value, clamping the clamped value again returns the clamped value.
C15_ClampIsIdempotent ==
    probe.op = "clamp" => probe.twice = probe.once

\* A value below both bounds of a range with min > max has been clamped, and
\* so has a value outside a range with min < max.
C15_Witness ==
    /\ probe.op = "clamp"
    /\ probe.range.min # None /\ probe.range.max # None
    /\ probe.range.min[1].n > probe.range.max[1].n
    /\ probe.v.n < probe.range.max[1].n
    /\ probe.once # probe.v
    /\ probe.twice = probe.once

\* C16: RangeT accepts a range exactly when min is absent, max is absent or
\* min <= max; a range with min > max is refused by `is` and by `validate`,
\* whose error names both bounds; a range that is accepted is returned as it
\* was given; `is` and `validate` agree on every input.
C16_RangeTAcceptsOrderedRanges ==
    probe.op = "RangeT" =>
        LET r == probe.range
        IN  /\ probe.is = isRight(probe.validated)
            /\ rawTypeIs(r) =>
                  /\ probe.is = (r.min = None \/ r.max = None \/ r.min[1].n <= r.max[1].n)
                  /\ probe.is => probe.validated = Right(r)
                  /\ ~probe.is =>
                        probe.validated.left =
                            << <<"The max value(", NatToString(r.max[1].n),
                                 ") should be equal to or greater than the min value(",
                                 NatToString(r.min[1].n), ").">> >>

\* The range {min: 3, max: 2} has been refused with the message of the tests.
C16_Witness ==
    /\ probe.op = "RangeT"
    /\ probe.range = Range(Some(Num(3)), Some(Num(2)))
    /\ ~probe.is
    /\ probe.validated =
          Left(<< <<"The max value(", "2",
                    ") should be equal to or greater than the min value(", "3", ").">> >>)

\* C17: a range with min > max is rejected before it is used: the range a get
\* or a set of a bound attribute clamps with, whether given to the
\* constructor or returned by an overridden getRange, has min <= max.
C17_InvertedRangeIsNeverUsed ==
    (call.op \in {"get", "set"} /\ PathExists(call.attr, call.input)) =>
        LET r == getRange(call.attr, call.input)
        IN  IF r = None THEN TRUE ELSE Ordered(r[1])

\* C18: get(id) succeeds exactly when findById(id) returns Some, and then with
\* the same accessor; when the id is not a key of `actors`, findById returns
\* None and get returns UnknownActorError with the id in its message;
\* findById returns an Option, never an error.
C18_GetAgreesWithFindById ==
    look.op \in {"read", "write"} =>
        /\ Len(look.found) <= 1
        /\ isRight(look.got) <=> look.found # None
        /\ look.found # None => look.got = Right(look.found[1])
        /\ look.id \notin DOMAIN look.input.actors =>
              /\ look.found = None
              /\ ErrorType(look.got) = "UnknownActor"
              /\ Contains(look.got.left.message, look.id)

\* In a context that holds the player, the player has been found and an
\* unknown id has not.
C18_Witness ==
    /\ look.op = "read"
    /\ DOMAIN look.input.actors = {"player"}
    /\ look.id = "npc"
    /\ look.found = None
    /\ ErrorType(look.got) = "UnknownActor"
    /\ Contains(look.got.left.message, "npc")

\* C19: find returns an accessor for every record of `actors` that satisfies
\* the predicate (findByData wraps every record), and every accessor it
\* returns is resolvable in the context: get of its name succeeds and
\* returns the name of a record that satisfies the predicate.
C19_FindReturnsResolvableAccessors ==
    look.op = "find" =>
        LET actors == look.input.actors
            matching == {k \in DOMAIN actors : Satisfies(look.pred, actors[k])}
        IN  /\ \A k \in matching :
                  \E i \in DOMAIN look.list : look.list[i] = ActorRef(actors[k].id)
            /\ \A i \in DOMAIN look.list :
                  LET r == get(NameOf(look.list[i]), look.input)
                  IN  /\ isRight(r)
                      /\ \E k \in matching : r.right = actors[k].name

\* C20: the accessor findById(id) or get(id) returns has the id that was
\* looked up, a read through its name returns the name of the record stored
\* under that id, and a write through its name succeeds and changes the name
\* of that record and nothing else.
C20_AccessorIsBoundToTheLookedUpId ==
    (look.op \in {"read", "write"} /\ look.found # None) =>
        /\ look.found[1].s = look.id
        /\ look.got.right.s = look.id
        /\ look.op = "read" => look.read = Right(look.input.actors[look.id].name)
        /\ look.op = "write" =>
              look.wrote = Right([look.input EXCEPT !.actors[look.id].name = look.value])

\* C21: equals(x, y) holds exactly when the ids of x and y are equal, whatever
\* their other fields are, and so it is reflexive, symmetric and transitive.
C21_EqIdComparesIdsOnly ==
    probe.op = "equals" =>
        /\ probe.xy <=> probe.x.id = probe.y.id
        /\ probe.xx
        /\ probe.xy <=> probe.yx
        /\ (probe.xy /\ probe.yz) => probe.xz

\* Two values with the same id and different names have been found equal,
\* and a third with another id has not.
C21_Witness ==
    /\ probe.op = "equals"
    /\ probe.x.id = probe.y.id /\ probe.x # probe.y
    /\ probe.z.id # probe.y.id
    /\ probe.xy /\ probe.yx /\ ~probe.yz /\ ~probe.xz

\* C22: modify(f)(context) is set(f(v))(context) where v is what the
\* attribute's own get returns for the context: for a bound attribute the
\* stored value clamped with the range of the context.  An error of the get is
\* returned without a call of f; otherwise f is called once and the result,
\* error or not, is that of the set.
C22_ModifyIsGetThenSet ==
    call.op = "modify" =>
        LET g == boundGet(call.attr, call.input)
        IN  IF isLeft(g)
            THEN call.result = g /\ call.calls = 0
            ELSE LET r == getRange(call.attr, call.input)
                     v == IF r = None THEN Found ELSE clamp(r[1], Found)
                 IN  /\ g = Right(v)
                     /\ call.calls = 1
                     /\ call.result = boundSet(call.attr, Apply(call.f, v), call.input)

\* With the range {min: 10, max: 19} and a stored age of 5, modify(age + 1)
\* has stored 11: the modifier was given the clamped 10, not the stored 5.
C22_Witness ==
    /\ call.op = "modify" /\ isRight(call.result)
    /\ call.attr.range = ConstRange(Some(Num(10)), Some(Num(19)))
    /\ Found = Num(5)
    /\ Stored = Num(11)
    /\ ctx = call.result.right

\* C23: the three foci context -> actors, actors -> record at a key and
\* record -> field give the same get result and the same set result whether
\* the first two or the last two are composed first, for every subject; when
\* the key is missing both groupings fail, and when it is present both read
\* and write the field of the record under the key.
C23_CompositionIsAssociative ==
    probe.op = "compose" =>
        /\ probe.getL = probe.getR
        /\ probe.setL = probe.setR
        /\ IF probe.key \in DOMAIN probe.s.actors
           THEN /\ probe.getL = Right(probe.s.actors[probe.key][probe.field])
                /\ probe.setL =
                      Right([probe.s EXCEPT !.actors[probe.key][probe.field] = probe.v])
           ELSE /\ probe.getL = Left([error |-> MissingKey(probe.key)])
                /\ probe.setL = Left([error |-> MissingKey(probe.key)])

\* Both groupings have written the name of the player in a context that holds
\* another actor as well.
C23_Witness ==
    /\ probe.op = "compose"
    /\ DOMAIN probe.s.actors = ActorIds
    /\ probe.key = "player" /\ probe.field = "name"
    /\ isRight(probe.setL) /\ probe.setL.right # probe.s
    /\ probe.setR = probe.setL
    /\ probe.getR = Right(probe.s.actors["player"].name)

\* C24: a nested update called by a step of an update pipeline leaves the
\* outer pipeline's record, and the snapshot the outer call began with, as
\* they were; when the outer call ends with a success it stores the context
\* of its own record, whatever the nested call stored in between.
C24_OuterCommitOverwritesNested ==
    /\ [][(idx' = idx + 1 /\ step'.kind = "nested") => (ma' = ma /\ pre' = pre)]_vars
    /\ [][(pc = "running" /\ pc' = "idle" /\ mode = "update" /\ isRight(ma)) =>
              world' = ma.right.context]_vars
    /\ []((pc = "idle" /\ mode = "update" /\ isRight(result)) =>
              world = result.right.context)

\* A nested update stored a renamed player; the outer call then ended with a
\* success and stored its own context, in which the player has the old name.
C24_Witness ==
    /\ pc = "idle" /\ mode = "update" /\ isRight(result)
    /\ step.kind = "nested" /\ isRight(step.after)
    /\ "player" \in DOMAIN pre.actors
    /\ step.after.right.context.actors["player"].name = Str("Xanthias")
    /\ world = result.right.context
    /\ world.actors["player"].name = Str("Anna")

\* C25: on one snapshot s and one pipeline, BaseWorld.update returns Right(w)
\* exactly when BaseGame.update returns a success and stores w, and Left(e)
\* exactly when BaseGame.update returns Left(e) and still stores s.
C25_WorldAndGameAgree ==
    probe.op = "end" =>
        /\ isRight(probe.readerResult) <=> isRight(probe.gameResult)
        /\ isRight(probe.readerResult) =>
              /\ probe.readerResult.right = probe.stored
              /\ probe.stored = probe.gameResult.right.context
        /\ isLeft(probe.readerResult) =>
              /\ probe.readerResult = probe.gameResult
              /\ probe.stored = probe.s

\* Both ran a pipeline of a bind and two updates to a success that changed
\* the snapshot.
C25_Witness ==
    /\ probe.op = "end"
    /\ probe.n = MaxSteps
    /\ isRight(probe.readerResult)
    /\ isRight(probe.gameResult)
    /\ "a" \in DOMAIN probe.gameResult.right
    /\ probe.stored # probe.s
    /\ probe.readerResult.right = probe.stored

\* The context a structural write of the call's value gives.
AfterWrite ==
    [call.input EXCEPT !.actors[call.attr.key][call.attr.name] = call.value]

\* C26: set asks the policy about the written context: it succeeds, with the
\* written context, exactly when the path exists and the attribute is
\* updatable in the written context; when the path exists and the attribute
\* is read-only in the written context the error is ReadOnlyAttribute, however
\* the policy judged the context that was given.
C26_PolicyJudgesTheWrittenContext ==
    (call.op = "set" /\ "policy" \in DOMAIN call.attr) =>
        IF PathExists(call.attr, call.input)
        THEN IF isUpdatable(call.attr, AfterWrite)
             THEN call.result = Right(AfterWrite)
             ELSE ErrorType(call.result) = "ReadOnlyAttribute"
        ELSE ErrorType(call.result) = "AttributeAccess"

\* The age of an adult player, read-only under the "minor" policy, was set
\* to a minor's age and the write was accepted; the attribute is read-only
\* in the context given and updatable in the context returned.
C26_Witness ==
    /\ call.op = "set"
    /\ "policy" \in DOMAIN call.attr
    /\ call.attr.name = "age"
    /\ call.attr.policy = "minor"
    /\ PathExists(call.attr, call.input)
    /\ ~isUpdatable(call.attr, call.input)
    /\ isRight(call.result)
    /\ isUpdatable(call.attr, call.result.right)
    /\ ctx = call.result.right

\* The value modifyRaw hands to the decoder: the modifier applied to what the
\* attribute's get returns.
RawModified == Apply(call.f, boundGet(call.attr, call.input).right)

\* C27: on a bound attribute, setRaw of a value the decoder rejects, and
\* modifyRaw whose modifier returns such a value for an existing path, return
\* InvalidAttribute and leave the context as it was, whatever clamping the
\* value into the range would give.
C27_RawValuesAreValidatedBeforeClamping ==
    /\ (call.op = "setRaw" /\ isLeft(decode(call.attr, call.value))) =>
          (ErrorType(call.result) = "InvalidAttribute" /\ ctx = call.input)
    /\ (call.op = "modifyRaw" /\ PathExists(call.attr, call.input)
            /\ isLeft(decode(call.attr, RawModified))) =>
          (ErrorType(call.result) = "InvalidAttribute" /\ ctx = call.input)

\* setRaw of a negative age on an updatable attribute with a minimum: the
\* clamped value would have been a valid age, and the call was rejected.
C27_Witness ==
    /\ call.op = "setRaw"
    /\ call.value = Num(0 - 30)
    /\ call.attr.updatable
    /\ call.attr.range.kind = "const"
    /\ call.attr.range.min # None
    /\ PathExists(call.attr, call.input)
    /\ isRight(decode(call.attr, clamped(call.attr, call.input, call.value)))
    /\ ErrorType(call.result) = "InvalidAttribute"
    /\ ctx = call.input

Plain(attr) == attr.range.kind = "none"

Constant(attr) == attr.range.kind = "const"

\* The last call was a successful set (the attribute is updatable and its
\* path exists).
SetDone == call.op = "set" /\ isRight(call.result)

\* get of the context a successful set returned gives the value written, or,
\* under a constant range, that value clamped into the range.
ReadBack ==
    SetDone =>
        /\ Plain(call.attr) =>
              boundGet(call.attr, call.result.right) = Right(call.value)
        /\ Constant(call.attr) =>
              boundGet(call.attr, call.result.right) =
                  Right(clamp(Range(call.attr.range.min, call.attr.range.max), call.value))

\* Setting the value again in the context a successful set returned gives
\* that context.
SecondWrite == boundSet(call.attr, call.value, call.result.right) = call.result

\* Setting what get returned, in the context it was read from, gives that
\* context.
WriteBack ==
    (call.op = "get" /\ isRight(call.result) /\ Plain(call.attr) /\ call.attr.updatable) =>
        boundSet(call.attr, call.result.right, call.input) = Right(call.input)

\* C28 as stated: reading back a successful write gives the value written
\* (clamped, under a constant range); writing the same value twice gives the
\* same context as writing it once, for every updatable attribute; writing
\* back what was read from a plain attribute gives the same context.
C28_Original ==
    /\ ReadBack
    /\ SetDone => SecondWrite
    /\ WriteBack

\* C28 as amended: the second write gives the same context for a plain
\* attribute and for a bound attribute with a constant range.
C28_RoundTrips ==
    /\ ReadBack
    /\ (SetDone /\ (Plain(call.attr) \/ Constant(call.attr))) => SecondWrite
    /\ WriteBack

\* An age above the maximum was set under a constant range: the context
\* returned holds the maximum, a get of it returns the maximum, and a second
\* set of the same age returns the same context.
C28_Witness ==
    /\ SetDone
    /\ Constant(call.attr)
    /\ call.attr.range.max # None
    /\ call.attr.range.min = None
    /\ call.value.n > call.attr.range.max[1].n
    /\ call.result.right # call.input
    /\ boundGet(call.attr, call.result.right) = Right(call.attr.range.max[1])
    /\ SecondWrite

\* The health stored for the target of the last call, before the call.
HealthBefore == call.input.actors[call.attr.key].health.n

\* C29: the stored health is always a number not below zero; damage of a
\* target that exists returns the context with health h - amount when
\* amount <= h, and InvalidAttribute, leaving the context and its health as
\* they were, when amount > h.
C29_DamageNeverMakesHealthNegative ==
    /\ \A k \in DOMAIN ctx.actors :
          ctx.actors[k].health.t = "number" /\ ctx.actors[k].health.n >= 0
    /\ (call.op = "damage" /\ PathExists(call.attr, call.input)) =>
          IF call.value.n <= HealthBefore
          THEN /\ call.result = Right([call.input EXCEPT
                     !.actors[call.attr.key].health = Num(HealthBefore - call.value.n)])
               /\ ctx = call.result.right
          ELSE /\ ErrorType(call.result) = "InvalidAttribute"
               /\ ctx = call.input

\* A target already damaged down to a health of 2 was dealt more than that:
\* the call was rejected and the health is still 2.
C29_Witness ==
    /\ call.op = "damage"
    /\ PathExists(call.attr, call.input)
    /\ HealthBefore = 2
    /\ call.value.n = 3
    /\ ErrorType(call.result) = "InvalidAttribute"
    /\ ctx.actors["player"].health = Num(2)

\* The source documents whose text the parser rejects, by position.
Unparsable ==
    {i \in DOMAIN probe.source.right : probe.source.right[i].pageContent \in {"longA", "longB"}}

\* The documents of the task's result that came from source document i.
From(i) == {p \in DOMAIN probe.task.right : probe.task.right[p].metadata.id = i}

\* C30: when the source loader throws, the task returns an IOError whose
\* details are the cause and no document was parsed; when a source document
\* fails to parse, the task returns the LoreParseError of the first such
\* document and no documents; otherwise it returns the documents of every
\* source document, in source order; load rejects with the task's error and
\* resolves with the task's documents.
C30_CreateTaskIsAllOrNothing ==
    /\ probe.pc \in {"done", "settled"} =>
          IF isLeft(probe.source)
          THEN /\ probe.task = Left(IOError(probe.source.left))
               /\ probe.results = <<>>
          ELSE IF Unparsable # {}
          THEN /\ isLeft(probe.task)
               /\ \E i \in Unparsable :
                     /\ \A j \in Unparsable : i <= j
                     /\ probe.task.left = parseText(probe.source.right[i].pageContent).left
          ELSE /\ isRight(probe.task)
               /\ \A i \in DOMAIN probe.source.right :
                     Cardinality(From(i)) =
                         Len(parseText(probe.source.right[i].pageContent).right)
               /\ \A p \in DOMAIN probe.task.right : \A q \in DOMAIN probe.task.right :
                     p <= q => probe.task.right[p].metadata.id <= probe.task.right[q].metadata.id
    /\ probe.pc = "settled" =>
          IF isLeft(probe.task)
          THEN probe.promise = [state |-> "rejected", value |-> probe.task.left]
          ELSE probe.promise = [state |-> "resolved", value |-> probe.task.right]

\* Of three source documents the first and the last parsed and the second did
\* not: the task returned the second's error and load rejected with it.
C30_Witness ==
    /\ probe.pc = "settled"
    /\ isRight(probe.source)
    /\ Unparsable = {2}
    /\ Len(probe.results) = MaxDocs
    /\ isRight(probe.results[1])
    /\ isRight(probe.results[MaxDocs])
    /\ isLeft(probe.task)
    /\ probe.task.left.type = "LoreParse"
    /\ probe.promise.state = "rejected"
    /\ probe.promise.value = probe.task.left

====
